---- MODULE Spec2Model ----
(***************************************************************************)
(* A model of pocketmod_converter.py: main(), check_input_file(),          *)
(* input_size_orientation() and pocket_modder().                           *)
(*                                                                         *)
(* Python floats are modelled as exact rationals <<numerator, denominator>>*)
(* in lowest terms, so 0.3528 is 441/1250.  File names are sequences of    *)
(* one-character strings so that slicing and lower() can be computed.      *)
(***************************************************************************)
EXTENDS Integers, Sequences, FiniteSets, TLC

\* ---------------------------------------------------------------- bounds
\* largest page count of a document given directly to pocket_modder
MaxPages == 10
\* largest small side length in mm given directly to pocket_modder
MaxDim == 4
\* largest number of entries os.listdir returns
MaxEntries == 2
\* largest page count of a document read by main()
MaxFilePages == 1
\* largest media box coordinate (1/72 inch) of a document read by main()
MaxBox == 5

\* ------------------------------------------------------- rational numbers
RECURSIVE GCD(_, _)
GCD(a, b) == IF b = 0 THEN a ELSE GCD(b, a % b)

Abs(a) == IF a < 0 THEN -a ELSE a

\* n/d in lowest terms with a positive denominator (d # 0)
Rat(n, d) ==
    LET g == GCD(Abs(n), Abs(d))
        s == IF d < 0 THEN -1 ELSE 1
    IN  <<(s * n) \div g, (s * d) \div g>>

FromInt(n) == <<n, 1>>
\* the operations cancel common factors before they multiply
RMul(x, y) ==
    LET g == GCD(Abs(x[1]), y[2])
        k == GCD(Abs(y[1]), x[2])
    IN  Rat((x[1] \div g) * (y[1] \div k), (x[2] \div k) * (y[2] \div g))
RDiv(x, y) == RMul(x, Rat(y[2], y[1]))
RLe(x, y) ==
    LET g == GCD(x[2], y[2])
    IN  x[1] * (y[2] \div g) <= y[1] * (x[2] \div g)
RLt(x, y) ==
    LET g == GCD(x[2], y[2])
    IN  x[1] * (y[2] \div g) < y[1] * (x[2] \div g)
\* Python's min(x, y): y only when y < x
RMin(x, y) == IF RLt(y, x) THEN y ELSE x
Zero == FromInt(0)

\* math.ceil of a non-negative rational
Ceil(x) == IF x[1] % x[2] = 0 THEN x[1] \div x[2] ELSE (x[1] \div x[2]) + 1

\* round() of a non-negative rational: nearest integer, ties to even
Round(x) ==
    LET q == x[1] \div x[2]
        r2 == 2 * (x[1] % x[2])
    IN  IF r2 < x[2] THEN q
        ELSE IF r2 > x[2] THEN q + 1
        ELSE IF q % 2 = 0 THEN q ELSE q + 1

\* ------------------------------------------------------------- constants
\* pypdf_scale = 0.3528
pypdf_scale == Rat(3528, 10000)

Portrait == "Portrait"
Landscape == "Landscape"

\* ------------------------------------------------------------ file names
Lower(c) ==
    CASE c = "P" -> "p"
      [] c = "D" -> "d"
      [] c = "F" -> "f"
      [] OTHER -> c

\* s[-3:].lower()
Last3Lower(s) ==
    LET n == Len(s)
        t == IF n <= 3 THEN s ELSE SubSeq(s, n - 2, n)
    IN  [k \in 1..Len(t) |-> Lower(t[k])]

\* file[-3:].lower() == 'pdf'
IsPdfName(s) == Last3Lower(s) = <<"p", "d", "f">>

\* directory entries and command line arguments that are tried
Names ==
    { <<"a", ".", "p", "d", "f">>,
      <<"b", ".", "P", "D", "F">>,
      <<"c", "p", "d", "f">>,
      <<"d", ".", "t", "x", "t">>,
      <<"d", "f">> }

\* answers typed at the file name prompt
InNames == { <<"o">>, <<"n">> }

\* input(...) + '.pdf'
OutputName(typed) == typed \o <<".", "p", "d", "f">>

OutPaths == { OutputName(t) : t \in InNames }

\* answers typed at the replace prompt
Answers == { "Y", "y", "N", "n" }

\* side lengths in mm given directly to pocket_modder
Dims == (0..MaxDim) \cup {210, 297}

\* ----------------------------------------------- input_size_orientation
\* round(float(media_box[k]) * 0.3528)
ToMM(box) == Round(RMul(FromInt(box), pypdf_scale))

Orientation(w, h) == IF w > h THEN Landscape ELSE Portrait

\* --------------------------------------------------------- pocket_modder
\* width, height = height, width for Landscape
WorkingDims(w, h, o) == IF o = Landscape THEN <<h, w>> ELSE <<w, h>>

\* max in place of min
ScaleOf_max(output_width, output_height, w, h) ==
    LET a == RDiv(output_width, FromInt(w))
        b == RDiv(output_height, FromInt(h))
    IN  IF RLt(a, b) THEN b ELSE a

\* min(output_width / width, output_height / height)
ScaleOf(output_width, output_height, w, h) ==
    RMin(RDiv(output_width, FromInt(w)), RDiv(output_height, FromInt(h)))

\* transformation_dict['Landscape'][k] as (x, y, rotation), with a slip in slot 7
LandscapeTable_slot7(xt, yt) ==
    [k \in 0..7 |->
        CASE k = 0 -> <<Zero, yt, 270>>
          [] k = 1 -> <<xt, yt, 90>>
          [] k = 2 -> <<RMul(xt, FromInt(2)), yt, 90>>
          [] k = 3 -> <<RMul(xt, FromInt(3)), yt, 90>>
          [] k = 4 -> <<RMul(xt, FromInt(4)), yt, 90>>
          [] k = 5 -> <<RMul(xt, FromInt(3)), yt, 270>>
          [] k = 6 -> <<RMul(xt, FromInt(2)), yt, 270>>
          [] k = 7 -> <<RMul(xt, FromInt(2)), yt, 270>>]

\* transformation_dict['Landscape'][k] as (x, y, rotation), k in 0..7
LandscapeTable(xt, yt) ==
    [k \in 0..7 |->
        CASE k = 0 -> <<Zero, yt, 270>>
          [] k = 1 -> <<xt, yt, 90>>
          [] k = 2 -> <<RMul(xt, FromInt(2)), yt, 90>>
          [] k = 3 -> <<RMul(xt, FromInt(3)), yt, 90>>
          [] k = 4 -> <<RMul(xt, FromInt(4)), yt, 90>>
          [] k = 5 -> <<RMul(xt, FromInt(3)), yt, 270>>
          [] k = 6 -> <<RMul(xt, FromInt(2)), yt, 270>>
          [] k = 7 -> <<xt, yt, 270>>]

\* transformation_dict['Portrait'][k] as (x, y, rotation), k in 0..7
PortraitTable(xt, yt) ==
    [k \in 0..7 |->
        CASE k = 0 -> <<xt, yt, 180>>
          [] k = 1 -> <<Zero, yt, 0>>
          [] k = 2 -> <<xt, yt, 0>>
          [] k = 3 -> <<RMul(xt, FromInt(2)), yt, 0>>
          [] k = 4 -> <<RMul(xt, FromInt(3)), yt, 0>>
          [] k = 5 -> <<RMul(xt, FromInt(4)), yt, 180>>
          [] k = 6 -> <<RMul(xt, FromInt(3)), yt, 180>>
          [] k = 7 -> <<RMul(xt, FromInt(2)), yt, 180>>]

\* the two tables filed under each other's key
transformation_dict_swapped(o, xt, yt) ==
    IF o = Landscape THEN PortraitTable(xt, yt) ELSE LandscapeTable(xt, yt)

\* transformation_dict[o]
transformation_dict(o, xt, yt) ==
    IF o = Landscape THEN LandscapeTable(xt, yt) ELSE PortraitTable(xt, yt)

\* n // 8 + 1 in place of the ceiling
SheetCount_floor_plus_one(n) == (n \div 8) + 1

\* math.ceil(input_pdf.getNumPages() / 8)
SheetCount(n) == Ceil(Rat(n, 8))

\* the cell size in place of the sheet size
BlankPageSize_cell(w, h) ==
    [width |-> RDiv(Rat(h, 4), pypdf_scale), height |-> RDiv(Rat(w, 2), pypdf_scale)]

\* the arguments of writer.addBlankPage(width, height)
BlankPageSize(w, h) ==
    [width |-> RDiv(FromInt(h), pypdf_scale), height |-> RDiv(FromInt(w), pypdf_scale)]

\* the break tested against the last page index
AllPagesPlaced_last_index(p, n) == p = n - 1

\* if page == input_pdf.getNumPages(): break
AllPagesPlaced(p, n) == p = n

\* 'N' taken for a yes as well
IsYes_or_N(r) == r = "Y" \/ r = "y" \/ r = "N"

\* while not (response == 'Y' or response == 'y')
IsYes(r) == r = "Y" \/ r = "y"

\* ------------------------------------------------------------------ state
VARIABLES
    pc,              \* position of the program
    arg,             \* args.input_file: what the path is, and its name
    file_type,       \* result of check_input_file; "none" when pocket_modder is called directly
    listing,         \* os.listdir(args.input_file)
    idx,             \* position of the for loop in listing (1-based)
    resolved,        \* entries passed to input_size_orientation
    composed,        \* entries passed to pocket_modder
    skipped,         \* entries reported as skipped
    converted,       \* entries whose pocket_modder call returned
    finished,        \* 'Conversion finished.' was printed
    error,           \* the uncaught exception, "none" when there is none
    in_pages,        \* input_pdf.getNumPages()
    in_width,        \* pocket_modder's width argument
    in_height,       \* pocket_modder's height argument
    orientation,     \* pocket_modder's orientation argument
    width,           \* local width after the Landscape swap
    height,          \* local height after the Landscape swap
    x_translation,
    y_translation,
    scale,
    new_pdf,         \* the blank pages added to the writer, in order
    new_pdf_pageNum,
    page,
    i,
    key,
    placements,      \* the mergeRotatedScaledTranslatedPage calls, in order
    response,
    output_pdf,
    existed,         \* what os.path.exists(output_pdf) returned
    replace_asked,   \* the last replace prompt: the path it was about and the answer
    files,           \* paths that exist in the working directory
    written          \* the writer.write calls, in order

mainVars == <<arg, file_type, listing, idx, resolved, composed, skipped, converted, finished>>
argVars == <<in_pages, in_width, in_height, orientation>>
layoutVars == <<width, height, x_translation, y_translation, scale, new_pdf_pageNum>>
loopVars == <<new_pdf, page, i, key, placements>>
promptVars == <<response, output_pdf, existed, replace_asked>>
vars == <<pc, error, mainVars, argVars, layoutVars, loopVars, promptVars, files, written>>

NoPrompt == [path |-> <<>>, answer |-> ""]

\* the locals of pocket_modder before it runs
LocalsInit ==
    /\ width = 0 /\ height = 0
    /\ x_translation = Zero /\ y_translation = Zero /\ scale = Zero
    /\ new_pdf = <<>> /\ new_pdf_pageNum = 0
    /\ page = 0 /\ i = 0 /\ key = 0
    /\ placements = <<>>
    /\ response = "" /\ output_pdf = <<>> /\ existed = FALSE
    /\ replace_asked = NoPrompt
    /\ written = <<>>
    /\ error = "none"

MainInit ==
    /\ file_type = "none" /\ listing = <<>> /\ idx = 0
    /\ resolved = {} /\ composed = {} /\ skipped = {} /\ converted = {}
    /\ finished = FALSE

\* the listings os.listdir can return: distinct names
Listings ==
    { l \in UNION { [1..n -> Names] : n \in 0..MaxEntries } :
        \A a, b \in DOMAIN l : a # b => l[a] # l[b] }

\* the program started from the command line
Init ==
    /\ pc = "start"
    /\ arg \in [kind : {"file", "dir", "missing"}, name : Names]
    /\ files \in SUBSET OutPaths
    /\ in_pages = 0 /\ in_width = 0 /\ in_height = 0 /\ orientation = Portrait
    /\ MainInit
    /\ LocalsInit

\* pocket_modder called on a document of any page count, with the size and
\* orientation input_size_orientation derives
InitCompose ==
    /\ pc = "pm_setup"
    /\ arg = [kind |-> "file", name |-> <<>>]
    /\ files \in SUBSET OutPaths
    /\ in_pages \in 0..MaxPages
    /\ in_width \in Dims /\ in_height \in Dims
    /\ orientation = Orientation(in_width, in_height)
    /\ MainInit
    /\ LocalsInit

\* ------------------------------------------------------------------- main
\* file_type = check_input_file(args.input_file)
check_input_file ==
    /\ pc = "start"
    /\ IF arg.kind = "file"
       THEN IF IsPdfName(arg.name)
            THEN /\ file_type' = "pdf"
                 /\ pc' = "resolve"
                 /\ error' = error
            ELSE /\ error' = "ValueError"
                 /\ pc' = "raised"
                 /\ file_type' = file_type
       ELSE IF arg.kind = "dir"
            THEN /\ file_type' = "folder"
                 /\ pc' = "listdir"
                 /\ error' = error
            ELSE /\ error' = "FileNotFoundError"
                 /\ pc' = "raised"
                 /\ file_type' = file_type
    /\ UNCHANGED <<arg, listing, idx, resolved, composed, skipped, converted, finished>>
    /\ UNCHANGED <<argVars, layoutVars, loopVars, promptVars, files, written>>

\* for file in os.listdir(args.input_file)
main_listdir ==
    /\ pc = "listdir"
    /\ \E l \in Listings : listing' = l
    /\ idx' = 1
    /\ pc' = "loop"
    /\ UNCHANGED <<arg, file_type, resolved, composed, skipped, converted, finished>>
    /\ UNCHANGED <<error, argVars, layoutVars, loopVars, promptVars, files, written>>

\* an entry whose last three characters are 'pdf': input_size_orientation is called
main_entry_pdf ==
    /\ pc = "loop"
    /\ idx <= Len(listing)
    /\ IsPdfName(listing[idx])
    /\ pc' = "resolve"
    /\ UNCHANGED <<error, mainVars, argVars, layoutVars, loopVars, promptVars, files, written>>

\* any other entry: the notice and the separator are printed
main_entry_skip ==
    /\ pc = "loop"
    /\ idx <= Len(listing)
    /\ ~IsPdfName(listing[idx])
    /\ skipped' = skipped \cup {idx}
    /\ idx' = idx + 1
    /\ UNCHANGED <<pc, arg, file_type, listing, resolved, composed, converted, finished>>
    /\ UNCHANGED <<error, argVars, layoutVars, loopVars, promptVars, files, written>>

\* the loop is exhausted: print('Conversion finished.')
main_finish ==
    /\ pc = "loop"
    /\ idx > Len(listing)
    /\ finished' = TRUE
    /\ pc' = "done"
    /\ UNCHANGED <<arg, file_type, listing, idx, resolved, composed, skipped, converted>>
    /\ UNCHANGED <<error, argVars, layoutVars, loopVars, promptVars, files, written>>

Entered == IF file_type = "folder" THEN {idx} ELSE {}

\* input_size_orientation returns (width, height, orientation) and
\* pocket_modder is entered with them
input_size_orientation ==
    /\ pc = "resolve"
    /\ \E pages \in 1..MaxFilePages, bx \in 0..MaxBox, by \in 0..MaxBox :
         /\ in_pages' = pages
         /\ in_width' = ToMM(bx)
         /\ in_height' = ToMM(by)
         /\ orientation' = Orientation(ToMM(bx), ToMM(by))
    /\ resolved' = resolved \cup Entered
    /\ composed' = composed \cup Entered
    /\ pc' = "pm_setup"
    /\ UNCHANGED <<arg, file_type, listing, idx, skipped, converted, finished>>
    /\ UNCHANGED <<error, layoutVars, loopVars, promptVars, files, written>>

\* PdfFileReader(input_file) cannot read the file
input_unreadable ==
    /\ pc = "resolve"
    /\ resolved' = resolved \cup Entered
    /\ error' = "PdfReadError"
    /\ pc' = "raised"
    /\ UNCHANGED <<arg, file_type, listing, idx, composed, skipped, converted, finished>>
    /\ UNCHANGED <<argVars, layoutVars, loopVars, promptVars, files, written>>

\* getPage(0) of a document without pages
input_no_pages ==
    /\ pc = "resolve"
    /\ resolved' = resolved \cup Entered
    /\ error' = "IndexError"
    /\ pc' = "raised"
    /\ UNCHANGED <<arg, file_type, listing, idx, composed, skipped, converted, finished>>
    /\ UNCHANGED <<argVars, layoutVars, loopVars, promptVars, files, written>>

\* ---------------------------------------------------------- pocket_modder
\* the set-up of pocket_modder up to new_pdf_pageNum and page = 0
pm_setup ==
    /\ pc = "pm_setup"
    /\ in_width # 0 /\ in_height # 0
    /\ LET wd == WorkingDims(in_width, in_height, orientation)
           output_width == RDiv(FromInt(wd[2]), FromInt(4))
           output_height == RDiv(FromInt(wd[1]), FromInt(2))
       IN  /\ width' = wd[1]
           /\ height' = wd[2]
           /\ x_translation' = RDiv(output_width, pypdf_scale)
           /\ y_translation' = RDiv(output_height, pypdf_scale)
           /\ scale' = ScaleOf(output_width, output_height, wd[1], wd[2])
    /\ new_pdf' = <<>>
    /\ new_pdf_pageNum' = SheetCount(in_pages)
    /\ page' = 0
    /\ i' = 0
    /\ key' = 0
    /\ placements' = <<>>
    /\ pc' = "pm_outer"
    /\ UNCHANGED <<error, mainVars, argVars, promptVars, files, written>>

\* a side of 0 mm: output_width / width or output_height / height divides by zero
pm_zero_division ==
    /\ pc = "pm_setup"
    /\ in_width = 0 \/ in_height = 0
    /\ error' = "ZeroDivisionError"
    /\ pc' = "raised"
    /\ UNCHANGED <<mainVars, argVars, layoutVars, loopVars, promptVars, files, written>>

\* for i in range(0, new_pdf_pageNum): new_pdf.append(writer.addBlankPage(...))
pm_add_blank_page ==
    /\ pc = "pm_outer"
    /\ i < new_pdf_pageNum
    /\ new_pdf' = Append(new_pdf, BlankPageSize(width, height))
    /\ key' = 0
    /\ pc' = "pm_inner"
    /\ UNCHANGED <<page, i, placements>>
    /\ UNCHANGED <<error, mainVars, argVars, layoutVars, promptVars, files, written>>

\* for key in range(0, 8): new_pdf[i].mergeRotatedScaledTranslatedPage(...); page += 1
pm_merge_page ==
    /\ pc = "pm_inner"
    /\ key < 8
    /\ ~AllPagesPlaced(page, in_pages)
    /\ LET t == transformation_dict(orientation, x_translation, y_translation)[key]
       IN  placements' = Append(placements,
               [sheet |-> i, key |-> key, page |-> page,
                rotation |-> t[3], scale |-> scale, tx |-> t[1], ty |-> t[2]])
    /\ page' = page + 1
    /\ key' = key + 1
    /\ UNCHANGED <<pc, new_pdf, i>>
    /\ UNCHANGED <<error, mainVars, argVars, layoutVars, promptVars, files, written>>

\* the inner loop ends: range(0, 8) is exhausted or the break is taken
pm_sheet_done ==
    /\ pc = "pm_inner"
    /\ key = 8 \/ AllPagesPlaced(page, in_pages)
    /\ i' = i + 1
    /\ pc' = "pm_outer"
    /\ UNCHANGED <<new_pdf, page, key, placements>>
    /\ UNCHANGED <<error, mainVars, argVars, layoutVars, promptVars, files, written>>

\* the outer loop ends: response = 'N'
pm_composed ==
    /\ pc = "pm_outer"
    /\ i >= new_pdf_pageNum
    /\ response' = "N"
    /\ existed' = FALSE
    /\ replace_asked' = NoPrompt
    /\ pc' = "pm_prompt"
    /\ UNCHANGED output_pdf
    /\ UNCHANGED <<error, mainVars, argVars, layoutVars, loopVars, files, written>>

\* one pass of the while body up to os.path.exists(output_pdf)
pm_ask_name ==
    /\ pc = "pm_prompt"
    /\ ~IsYes(response)
    /\ \E typed \in InNames : output_pdf' = OutputName(typed)
    /\ response' = "Y"
    /\ existed' = (output_pdf' \in files)
    /\ pc' = IF output_pdf' \in files THEN "pm_replace" ELSE "pm_prompt"
    /\ UNCHANGED replace_asked
    /\ UNCHANGED <<error, mainVars, argVars, layoutVars, loopVars, files, written>>

\* response = input('Output file name already exists, ...')
pm_ask_replace ==
    /\ pc = "pm_replace"
    /\ \E a \in Answers : response' = a
    /\ replace_asked' = [path |-> output_pdf, answer |-> response']
    /\ pc' = "pm_prompt"
    /\ UNCHANGED <<output_pdf, existed>>
    /\ UNCHANGED <<error, mainVars, argVars, layoutVars, loopVars, files, written>>

\* with open(output_pdf, 'wb') as out_file: writer.write(out_file); the
\* call returns, to the for loop of main() in folder mode
pm_write ==
    /\ pc = "pm_prompt"
    /\ IsYes(response)
    /\ files' = files \cup {output_pdf}
    /\ written' = Append(written,
            [path |-> output_pdf, existed |-> existed, response |-> response,
             asked |-> replace_asked, sheets |-> Len(new_pdf)])
    /\ IF file_type = "folder"
       THEN /\ converted' = converted \cup {idx}
            /\ idx' = idx + 1
            /\ pc' = "loop"
       ELSE /\ pc' = "done"
            /\ UNCHANGED <<converted, idx>>
    /\ UNCHANGED <<arg, file_type, listing, resolved, composed, skipped, finished>>
    /\ UNCHANGED <<error, argVars, layoutVars, loopVars, promptVars>>

\* ---------------------------------------------------------- specifications
Next ==
    \/ check_input_file
    \/ main_listdir
    \/ main_entry_pdf
    \/ main_entry_skip
    \/ main_finish
    \/ input_size_orientation
    \/ input_unreadable
    \/ input_no_pages
    \/ pm_setup
    \/ pm_zero_division
    \/ pm_add_blank_page
    \/ pm_merge_page
    \/ pm_sheet_done
    \/ pm_composed
    \/ pm_ask_name
    \/ pm_ask_replace
    \/ pm_write

\* main() run from the command line
Spec == Init /\ [][Next]_vars

NextCompose ==
    \/ pm_setup
    \/ pm_zero_division
    \/ pm_add_blank_page
    \/ pm_merge_page
    \/ pm_sheet_done
    \/ pm_composed
    \/ pm_ask_name
    \/ pm_ask_replace
    \/ pm_write

\* pocket_modder alone
SpecCompose == InitCompose /\ [][NextCompose]_vars

\* ------------------------------------------------------------- properties
\* the composition loop of pocket_modder has ended
Composed == pc \in {"pm_prompt", "pm_replace", "done"}

Yes == {"Y", "y"}

\* C1: for n >= 1 source pages the placements are, in order, page p on sheet
\* p // 8 in slot p % 8 for p = 0, 1, ...; once the loop has ended there is
\* exactly one for every p in 0..n-1 and none in a slot at or beyond
\* n - 8*sheet.
C1_OnePlacementPerPage ==
    in_pages >= 1 =>
        /\ \A k \in 1..Len(placements) :
              /\ placements[k].page = k - 1
              /\ placements[k].sheet = (k - 1) \div 8
              /\ placements[k].key = (k - 1) % 8
              /\ placements[k].key < in_pages - 8 * placements[k].sheet
        /\ Len(placements) <= in_pages
        /\ Composed => Len(placements) = in_pages

C1_Witness ==
    /\ Composed
    /\ in_pages = 10
    /\ Len(placements) = 10
    /\ placements[10].sheet = 1
    /\ placements[10].key = 1

\* C2: for n >= 1 source pages the sheet count s satisfies
\* s*8 >= n > (s-1)*8, exactly s blank sheets are added to the writer, and
\* every one of them receives a page.
C2_SheetCount ==
    (in_pages >= 1 /\ Composed) =>
        /\ new_pdf_pageNum * 8 >= in_pages
        /\ in_pages > (new_pdf_pageNum - 1) * 8
        /\ Len(new_pdf) = new_pdf_pageNum
        /\ \A s \in 0..(Len(new_pdf) - 1) :
              \E k \in 1..Len(placements) : placements[k].sheet = s

C2_Witness ==
    /\ Composed
    /\ in_pages = 8
    /\ Len(new_pdf) = 1
    /\ Len(placements) = 8

\* C3: a composition of a document of zero pages (with positive sides)
\* produces no sheets, never completes, writes no output document, and the
\* error it ends in is an EmptyDocumentError.
C3_EmptyDocumentFails ==
    (in_pages = 0 /\ in_width > 0 /\ in_height > 0) =>
        /\ new_pdf = <<>>
        /\ pc # "done"
        /\ written = <<>>
        /\ pc = "raised" => error = "EmptyDocumentError"

\* the run in folder mode has ended
BatchEnded == file_type = "folder" /\ pc \in {"done", "raised"}

\* C4: in folder mode, whatever documents fail, the run ends with
\* 'Conversion finished' printed and with every entry taken for a PDF
\* either converted or the one whose failure was reported.
C4_BatchSurvivesFailure ==
    BatchEnded =>
        /\ finished
        /\ \A k \in 1..Len(listing) :
              IsPdfName(listing[k]) => (k \in converted \/ k \in resolved)

\* C5: an output document is written to a path that existed when it was
\* checked only if the replace prompt about that same path was answered 'Y'
\* or 'y'; after any other answer nothing is written until a new file name
\* has been requested.
C5_OverwriteOnlyOnYes ==
    /\ [](\A k \in 1..Len(written) :
            written[k].existed =>
                /\ written[k].asked.path = written[k].path
                /\ written[k].asked.answer \in Yes
                /\ written[k].response \in Yes)
    /\ [][ /\ (pc = "pm_replace" /\ response' \notin Yes) =>
                /\ pc' = "pm_prompt"
                /\ written' = written
                /\ files' = files
           /\ (pc = "pm_prompt" /\ response \notin Yes) =>
                /\ pc' \in {"pm_prompt", "pm_replace"}
                /\ output_pdf' \in OutPaths
                /\ existed' = (output_pdf' \in files)
                /\ written' = written
                /\ files' = files ]_vars

C5_Witness ==
    /\ Len(written) = 1
    /\ written[1].existed
    /\ written[1].response = "y"
    /\ written[1].asked = [path |-> written[1].path, answer |-> "y"]

\* the table of the claim: rotations and multiples of x_translation by slot
PocketmodRotation ==
    [Landscape |-> <<270, 90, 90, 90, 90, 270, 270, 270>>,
     Portrait |-> <<180, 0, 0, 0, 0, 180, 180, 180>>]

PocketmodXMultiple ==
    [Landscape |-> <<0, 1, 2, 3, 4, 3, 2, 1>>,
     Portrait |-> <<1, 0, 1, 2, 3, 4, 3, 2>>]

\* the working dimensions: swapped for Landscape
Working == IF orientation = "Landscape" THEN <<in_height, in_width>> ELSE <<in_width, in_height>>

\* (working_height / 4) / 0.3528 and (working_width / 2) / 0.3528
XUnit == Rat(Working[2] * 10000, 4 * 3528)
YUnit == Rat(Working[1] * 10000, 2 * 3528)

\* C6: every placement uses the rotation and the multiple of x_translation
\* that the fixed pocketmod table gives for (orientation, slot), and
\* y_translation as its y offset, whatever the sheet and the page.
C6_FixedTable ==
    \A k \in 1..Len(placements) :
        LET q == placements[k]
        IN  /\ q.rotation = PocketmodRotation[orientation][q.key + 1]
            /\ q.tx = Rat(PocketmodXMultiple[orientation][q.key + 1] * XUnit[1], XUnit[2])
            /\ q.ty = YUnit

C6_Witness ==
    /\ orientation = "Landscape"
    /\ in_width = 297 /\ in_height = 210
    /\ Len(placements) = 10
    /\ placements[10].sheet = 1
    /\ placements[10].rotation = 90
    /\ placements[8].rotation = 270

\* a name that ends in '.pdf', compared case-insensitively
EndsInDotPdf(s) ==
    /\ Len(s) >= 4
    /\ [k \in 1..4 |-> Lower(s[Len(s) - 4 + k])] = <<".", "p", "d", "f">>

\* C7: in folder mode an entry the loop has dealt with was passed to
\* input_size_orientation or pocket_modder if and only if its name ends in
\* '.pdf' (case-insensitive); every other entry was skipped.
C7_OnlyDotPdfConverted ==
    file_type = "folder" =>
        \A k \in 1..Len(listing) :
            /\ (k \in resolved \cup composed) => EndsInDotPdf(listing[k])
            /\ k \in skipped => ~EndsInDotPdf(listing[k])
            /\ k < idx => (k \in resolved \cup skipped)

\* C8: every sheet is created with width working_height / 0.3528 and height
\* working_width / 0.3528, and its two side lengths, in mm, are the measured
\* width and height of the first page.
C8_SheetIsInputSize ==
    \A s \in 1..Len(new_pdf) :
        LET wmm == RMul(new_pdf[s].width, Rat(3528, 10000))
            hmm == RMul(new_pdf[s].height, Rat(3528, 10000))
        IN  /\ new_pdf[s].width = Rat(Working[2] * 10000, 3528)
            /\ new_pdf[s].height = Rat(Working[1] * 10000, 3528)
            /\ \/ wmm = <<in_width, 1>> /\ hmm = <<in_height, 1>>
               \/ wmm = <<in_height, 1>> /\ hmm = <<in_width, 1>>

C8_Witness ==
    /\ Len(new_pdf) = 2
    /\ in_width = 210 /\ in_height = 297
    /\ new_pdf[2].width = Rat(2970000, 3528)
    /\ Composed

\* C9: every placement of a run has the same scale, which is
\* min(cell_width / working_width, cell_height / working_height), is > 0 and
\* <= both ratios, so that the scaled page fits in a cell.
C9_Scale ==
    \A k \in 1..Len(placements) :
        LET sc == placements[k].scale
            wx == Rat(Working[2], 4 * Working[1])
            wy == Rat(Working[1], 2 * Working[2])
        IN  /\ sc = placements[1].scale
            /\ sc = scale
            /\ sc = wx \/ sc = wy
            /\ RLe(sc, wx) /\ RLe(sc, wy)
            /\ RLt(<<0, 1>>, sc)
            /\ RLe(RMul(sc, <<Working[1], 1>>), Rat(Working[2], 4))
            /\ RLe(RMul(sc, <<Working[2], 1>>), Rat(Working[1], 2))

C9_Witness ==
    /\ Len(placements) = 9
    /\ in_width = 3 /\ in_height = 4
    /\ placements[9].scale = Rat(1, 3)

\* sum and negation of rationals
RAdd(x, y) ==
    LET g == GCD(x[2], y[2])
    IN  Rat(x[1] * (y[2] \div g) + y[1] * (x[2] \div g), (x[2] \div g) * y[2])
RNeg(x) == <<-x[1], x[2]>>

\* the rectangle a placement covers: the page of in_width x in_height mm (in
\* 1/72 inch), scaled, turned counter-clockwise about the origin, translated
Footprint(q) ==
    LET pw == RMul(Rat(in_width * 10000, 3528), q.scale)
        ph == RMul(Rat(in_height * 10000, 3528), q.scale)
        x == CASE q.rotation = 0 -> <<(<<0, 1>>), pw>>
               [] q.rotation = 90 -> <<RNeg(ph), (<<0, 1>>)>>
               [] q.rotation = 180 -> <<RNeg(pw), (<<0, 1>>)>>
               [] q.rotation = 270 -> <<(<<0, 1>>), ph>>
        y == CASE q.rotation = 0 -> <<(<<0, 1>>), ph>>
               [] q.rotation = 90 -> <<(<<0, 1>>), pw>>
               [] q.rotation = 180 -> <<RNeg(ph), (<<0, 1>>)>>
               [] q.rotation = 270 -> <<RNeg(pw), (<<0, 1>>)>>
    IN  [x1 |-> RAdd(x[1], q.tx), x2 |-> RAdd(x[2], q.tx),
         y1 |-> RAdd(y[1], q.ty), y2 |-> RAdd(y[2], q.ty)]

Inside(r, x1, x2, y1, y2) ==
    /\ RLe(x1, r.x1) /\ RLe(r.x2, x2)
    /\ RLe(y1, r.y1) /\ RLe(r.y2, y2)

Disjoint(r, t) ==
    \/ RLe(r.x2, t.x1) \/ RLe(t.x2, r.x1)
    \/ RLe(r.y2, t.y1) \/ RLe(t.y2, r.y1)

\* the cells of the 4 x 2 grid that contain a rectangle
CellsOf(r) ==
    { c \in (0..3) \X (0..1) :
        Inside(r, Rat(c[1] * XUnit[1], XUnit[2]), Rat((c[1] + 1) * XUnit[1], XUnit[2]),
                  Rat(c[2] * YUnit[1], YUnit[2]), Rat((c[2] + 1) * YUnit[1], YUnit[2])) }

\* C10: the footprints of the placements of a sheet lie inside the sheet
\* [0, working_height] x [0, working_width] (in 1/72 inch), each in a cell of
\* the 4 x 2 grid, and two of them overlap in no more than an edge.
C10_FootprintsTile ==
    \A k \in 1..Len(placements) :
        LET q == placements[k]
            r == Footprint(q)
        IN  /\ Inside(r, <<0, 1>>, Rat(Working[2] * 10000, 3528),
                         <<0, 1>>, Rat(Working[1] * 10000, 3528))
            /\ RLt(r.x1, r.x2) /\ RLt(r.y1, r.y2)
            /\ CellsOf(r) # {}
            /\ \A j \in 1..(k - 1) :
                  placements[j].sheet = q.sheet => Disjoint(Footprint(placements[j]), r)

C10_Witness ==
    /\ orientation = "Landscape"
    /\ in_width = 297 /\ in_height = 210
    /\ Len(placements) = 8
    /\ CellsOf(Footprint(placements[1])) = {<<0, 0>>}
    /\ CellsOf(Footprint(placements[5])) = {<<3, 1>>}

====
